---- MODULE Spec2Model ----
(***************************************************************************)
(* State-machine model of dpti's liquid Hamiltonian-TI driver              *)
(* (src/hti_liq.py): the "gen" command (make_tasks / _make_tasks), the     *)
(* external simulator that runs the generated tasks, and the "compute"     *)
(* command (post_tasks / _post_tasks / _main); and of the "gen" command of *)
(* the equilibration driver (src/equi.py): make_task / _gen_lammps_input.  *)
(* Spec is the first driver, SpecGen adds the second.                      *)
(*                                                                         *)
(* Numbers.  Lambda values live on an integer grid (the value v stands for *)
(* v/8), observables are integers, and a statistical error is a            *)
(* non-negative real that is held by its square (fields named *_sq).       *)
(* Observables read from a simulator log are per-atom values.              *)
(***************************************************************************)
EXTENDS Integers, Sequences, FiniteSets, TLC

VARIABLES
    jdata,      \* the configuration document handed to make_tasks / make_task
    cwd,        \* the process working directory (absolute path)
    dirs,       \* the directories that exist (absolute paths)
    files,      \* the files and symlinks that exist: path -> content
    pc,         \* position of the running command
    k,          \* index of the stage call in make_tasks / post_tasks
    idx,        \* loop index inside _make_tasks / _post_tasks
    err,        \* the exception that ended the command, NoErr if none
    all_tasks,  \* _post_tasks: the sorted glob result
    acc,        \* _post_tasks: all_lambda, all_dp_a, all_dp_e so far
    res,        \* post_tasks: the stage results returned so far
    ret,        \* post_tasks: its return value
    out,        \* what compute printed
    args        \* the options of the command line: temperature, pressure

vars == <<jdata, cwd, dirs, files, pc, k, idx, err, all_tasks, acc, res, ret, out, args>>

(***************************************************************************)
(* Bounds of the model.                                                    *)
(***************************************************************************)
\* largest element_num a configuration carries
MaxElem == 2

\* field width of the task index in 'task.%06d'
PadWidth == 6

(***************************************************************************)
(* Paths.  A path is a sequence of components; a component is a name with  *)
(* the decimal digits that a format wrote after it (none for fixed names). *)
(***************************************************************************)
N(s) == [base |-> s, digits |-> <<>>]

RECURSIVE Digits(_)
Digits(n) == IF n < 10 THEN <<n>> ELSE Append(Digits(n \div 10), n % 10)

RECURSIVE ZeroPad(_, _)
ZeroPad(ds, w) == IF Len(ds) >= w THEN ds ELSE ZeroPad(<<0>> \o ds, w)

\* 'task.%06d' % idx
TaskName(i) == [base |-> "task.", digits |-> ZeroPad(Digits(i), PadWidth)]

Parent(p) == SubSeq(p, 1, Len(p) - 1)

Prefixes(p) == {SubSeq(p, 1, n) : n \in 1..Len(p)}

\* os.path.join of a directory and a relative path
Join(p, q) == p \o q

\* a relative path as the operating system resolves it
Resolve(at, p) == at \o p

iter_name == <<N("new_job")>>

Root == <<>>

\* make_tasks with its second and third calls exchanged
MakeTasksCallsSwapped ==
    << [dir |-> N("00.soft_on"), step |-> "soft_on"],
       [dir |-> N("02.soft_off"), step |-> "soft_off"],
       [dir |-> N("01.deep_on"), step |-> "deep_on"] >>

\* the three calls make_tasks makes, in program order
MakeTasksCalls ==
    << [dir |-> N("00.soft_on"), step |-> "soft_on"],
       [dir |-> N("01.deep_on"), step |-> "deep_on"],
       [dir |-> N("02.soft_off"), step |-> "soft_off"] >>

\* the three calls post_tasks makes, in program order
PostTasksCalls ==
    << [dir |-> N("00.soft_on"), step |-> "soft_on"],
       [dir |-> N("01.deep_on"), step |-> "deep_on"],
       [dir |-> N("02.soft_off"), step |-> "soft_off"] >>

(***************************************************************************)
(* Errors and soft_param keys.                                             *)
(***************************************************************************)
Key(name, i, j) == [name |-> name, i |-> i, j |-> j]

NoKey == Key("", 0, 0)

NoErr == [type |-> "", key |-> NoKey]

Error(type, key) == [type |-> type, key |-> key]

\* 'sigma_'+str(i)+'_'+str(j)
SigmaKeyUnderscore(i, j) == Key("sigma_%d_%d", i, j)

\* 'sigma_'+str(i)+str(j)
SigmaKeyCompact(i, j) == Key("sigma_%d%d", i, j)

\* the scalar keys every potential assembly reads first, in reading order
BaseKeySeq == << Key("n", 0, 0), Key("alpha_lj", 0, 0), Key("rcut", 0, 0),
                 Key("epsilon", 0, 0), Key("activation", 0, 0) >>

BaseKeys == {BaseKeySeq[n] : n \in 1..Len(BaseKeySeq)}

\* sparam.get('element_num', 1); element_num = 0 stands for an absent key
ElementNum(sparam) == IF sparam.element_num = 0 THEN 1 ELSE sparam.element_num

\* filter(lambda t: t[0] <= t[1], ((i,j) for i in 1..n for j in 1..n)), in order
SigmaKeyIndex(n) ==
    LET all == [m \in 1..(n * n) |-> <<((m - 1) \div n) + 1, ((m - 1) % n) + 1>>]
    IN  SelectSeq(all, LAMBDA t : t[1] <= t[2])

\* bool(sparam): a dict is true when it holds a key
Truthy(sparam) == sparam.keys # {} \/ sparam.element_num # 0

\* first element of the sequence s that is not in the set have, as a sequence
FirstMissing(s, have) ==
    LET miss == SelectSeq(s, LAMBDA x : x \notin have)
    IN  IF miss = <<>> THEN <<>> ELSE <<miss[1]>>

(***************************************************************************)
(* parse_seq (lib.utils): a specification is a list of entries             *)
(* start:count:stop; each expands to count evenly spaced values from start *)
(* to stop, both included; the entries concatenate in listed order.        *)
(***************************************************************************)
EntryOk(e) == Len(e) = 3 /\ e[2] >= 2 /\ e[1] <= e[3]

Linspace(e) == [n \in 1..e[2] |-> e[1] + ((n - 1) * (e[3] - e[1])) \div (e[2] - 1)]

RECURSIVE Concat(_)
Concat(ss) == IF ss = <<>> THEN <<>> ELSE Head(ss) \o Concat(Tail(ss))

parse_seq(spec) ==
    IF \A n \in 1..Len(spec) : EntryOk(spec[n])
    THEN [ok |-> TRUE, val |-> Concat([n \in 1..Len(spec) |-> Linspace(spec[n])])]
    ELSE [ok |-> FALSE, val |-> <<>>]

\* the configuration key _make_tasks reads for a step; "" for an unknown step
LambdaKey(step) ==
    CASE step = "soft_on" -> "lambda_soft_on"
      [] step = "deep_on" -> "lambda_deep_on"
      [] step = "soft_off" -> "lambda_soft_off"
      [] OTHER -> ""

\* _make_tasks, the head: all_lambda, or the exception raised
AllLambda(jd, step) ==
    IF LambdaKey(step) = "" THEN [ok |-> FALSE, val |-> <<>>,
                                  err |-> Error("RuntimeError", Key("unknow step", 0, 0))]
    ELSE IF ~jd[LambdaKey(step)].present
         THEN [ok |-> FALSE, val |-> <<>>,
               err |-> Error("KeyError", Key(LambdaKey(step), 0, 0))]
    ELSE IF ~parse_seq(jd[LambdaKey(step)].spec).ok
         THEN [ok |-> FALSE, val |-> <<>>,
               err |-> Error("ParseError", Key(LambdaKey(step), 0, 0))]
    ELSE [ok |-> TRUE, val |-> parse_seq(jd[LambdaKey(step)].spec).val, err |-> NoErr]

(***************************************************************************)
(* The potential assembly of each step: the sigma key it reads for a pair. *)
(***************************************************************************)
FFSoftOnKey(i, j) == SigmaKeyUnderscore(i, j)

FFDeepOnKey(i, j) == SigmaKeyCompact(i, j)

FFSoftOffKey(i, j) == SigmaKeyUnderscore(i, j)

FFKey(step, i, j) ==
    CASE step = "soft_on" -> FFSoftOnKey(i, j)
      [] step = "deep_on" -> FFDeepOnKey(i, j)
      [] OTHER -> FFSoftOffKey(i, j)

\* the keys _ff_<step> reads from sparam, in reading order
FFReads(step, sparam) ==
    LET prs == SigmaKeyIndex(ElementNum(sparam))
    IN  BaseKeySeq \o [n \in 1..Len(prs) |-> FFKey(step, prs[n][1], prs[n][2])]

\* _gen_lammps_input_ideal(step, ..., lamb, soft_param, ..., 'nvt', ...): the
\* script, or the KeyError of the first key the assembly does not find
GenLammpsInputIdeal(step, lamb, sparam) ==
    LET miss == FirstMissing(FFReads(step, sparam), sparam.keys)
    IN  IF step \notin {"soft_on", "deep_on", "soft_off"}
        THEN [ok |-> FALSE, err |-> Error("RuntimeError", Key("unknown step", 0, 0)),
              text |-> [kind |-> "in.lammps", ff |-> "", lambda |-> lamb, ens |-> ""]]
        ELSE IF miss # <<>>
        THEN [ok |-> FALSE, err |-> Error("KeyError", miss[1]),
              text |-> [kind |-> "in.lammps", ff |-> "", lambda |-> lamb, ens |-> ""]]
        ELSE [ok |-> TRUE, err |-> NoErr,
              text |-> [kind |-> "in.lammps", ff |-> step, lambda |-> lamb, ens |-> "nvt"]]

\* the sigma keys the validation loop of _make_tasks checks, in order
SigmaKeyNameList(sparam) ==
    LET prs == SigmaKeyIndex(ElementNum(sparam))
    IN  [n \in 1..Len(prs) |-> SigmaKeyUnderscore(prs[n][1], prs[n][2])]

\* the validation of _make_tasks: the AssertionError it raises, or NoErr
ValidateSoftParam(sparam) ==
    LET miss == FirstMissing(SigmaKeyNameList(sparam), sparam.keys)
    IN  IF Truthy(sparam) /\ miss # <<>>
        THEN Error("AssertionError", miss[1])
        ELSE NoErr

(***************************************************************************)
(* The file system.                                                        *)
(***************************************************************************)
\* create_path (lib.utils): the directory and its missing parents
create_path(ds, at, p) == ds \cup Prefixes(Resolve(at, p))

Symlink(target) == [kind |-> "symlink", target |-> target]

Write(fs, p, content) == (p :> content) @@ fs

Exists(fs, p) == p \in DOMAIN fs

\* A generate operation that returns without putting the working directory
\* back: it stays where the last os.chdir went.
ChdirSkipped(saved, now) == now

\* os.chdir(cwd), cwd being the absolute path that os.getcwd() gave before
\* the operation changed directory
RestoreCwd(saved, now) == saved

\* str(ii) written to lambda.out, and float(...) of what is read back
LambdaStr(v) == [kind |-> "lambda.out", text |-> <<"repr", v>>]

ParseFloat(content) == content.text[2]

(***************************************************************************)
(* Inputs.                                                                 *)
(***************************************************************************)
Pairs(n) == {<<i, j>> \in (1..n) \X (1..n) : i <= j}

Underscored(n) == {SigmaKeyUnderscore(p[1], p[2]) : p \in Pairs(n)}

Compacted(n) == {SigmaKeyCompact(p[1], p[2]) : p \in Pairs(n)}

\* soft_param documents: complete ones, ones written in one key style only, ones
\* that lack a single pair key, and the empty document
KeySets(n) ==
    LET full == BaseKeys \cup Underscored(n) \cup Compacted(n)
    IN  {full, BaseKeys \cup Underscored(n), BaseKeys \cup Compacted(n)}
        \cup {full \ {key} : key \in Underscored(n) \cup Compacted(n)}

SoftParams ==
    {[element_num |-> 0, keys |-> {}]}
    \cup {[element_num |-> 0, keys |-> ks] : ks \in KeySets(1)}
    \cup UNION {{[element_num |-> n, keys |-> ks] : ks \in KeySets(n)} : n \in 1..MaxElem}

\* entries start:count:stop that parse, and entries that do not (start > stop,
\* count < 2)
GoodEntries == {<<0, 2, 4>>, <<4, 2, 8>>}

BadEntries == {<<4, 2, 0>>, <<0, 1, 4>>}

\* a lambda specification: absent from the document, one entry, or two
\* different entries in either order (ranges that share an endpoint, ranges
\* listed in descending order)
LambdaSpecs ==
    {[present |-> FALSE, spec |-> <<>>]}
    \cup {[present |-> TRUE, spec |-> <<e>>] : e \in GoodEntries \cup BadEntries}
    \cup {[present |-> TRUE, spec |-> <<a, b>>] : <<a, b>> \in {e \in GoodEntries \X GoodEntries : e[1] # e[2]}}

Configurations ==
    [equi_conf : {<<N("conf.lmp")>>}, model : {<<N("graph.pb")>>},
     soft_param : SoftParams,
     lambda_soft_on : LambdaSpecs, lambda_deep_on : LambdaSpecs,
     lambda_soft_off : LambdaSpecs]

NoRet == [fe |-> 0, err_sq |-> 0, sys_err |-> 0, tinfo |-> <<>>]

\* an option that was not given on the command line (argparse leaves None)
None == [given |-> FALSE, val |-> 0]

\* the command line of hti_liq has no temperature and no pressure option
NoArgs == [temperature |-> None, pressure |-> None]

Init ==
    /\ jdata \in Configurations
    /\ cwd = Root
    /\ dirs = {}
    /\ files = (<<N("conf.lmp")>> :> [kind |-> "conf"])
               @@ (<<N("graph.pb")>> :> [kind |-> "model"])
    /\ pc = "gen"
    /\ k = 0
    /\ idx = 0
    /\ err = NoErr
    /\ all_tasks = <<>>
    /\ acc = <<>>
    /\ res = <<>>
    /\ ret = NoRet
    /\ out = <<>>
    /\ args = NoArgs

(***************************************************************************)
(* gen: make_tasks and _make_tasks.                                        *)
(***************************************************************************)
\* make_tasks up to its first _make_tasks call: the job directory, the copies
\* of the configuration and the model, and in.json
MakeTasksHead ==
    /\ pc = "gen"
    /\ LET job == Resolve(cwd, iter_name)
           jd == [jdata EXCEPT !.equi_conf = Join(job, <<N("conf.lmp")>>),
                               !.model = Join(job, <<N("graph.pb")>>)]
       IN  /\ dirs' = create_path(dirs, cwd, iter_name)
           /\ jdata' = jd
           /\ files' = Write(Write(Write(files,
                           Join(job, <<N("conf.lmp")>>), files[Resolve(cwd, jdata.equi_conf)]),
                           Join(job, <<N("graph.pb")>>), files[Resolve(cwd, jdata.model)]),
                           Join(job, <<N("in.json")>>), [kind |-> "json", jdata |-> jd])
    /\ pc' = "make_tasks"
    /\ k' = 1
    /\ UNCHANGED <<cwd, idx, err, all_tasks, acc, res, ret, out, args>>

\* _make_tasks from its entry to the start of the task loop
MakeTasksEnter ==
    /\ pc = "make_tasks"
    /\ LET call == MakeTasksCalls[k]
           stage == Join(iter_name, <<call.dir>>)
           lam == AllLambda(jdata, call.step)
           bad == IF ~lam.ok THEN lam.err ELSE ValidateSoftParam(jdata.soft_param)
           at == Resolve(cwd, stage)
       IN  IF bad # NoErr
           THEN /\ err' = bad
                /\ pc' = "gen_failed"
                /\ UNCHANGED <<dirs, files, cwd, idx>>
           ELSE /\ dirs' = create_path(dirs, cwd, stage)
                /\ files' = Write(Write(Write(files,
                      Join(at, <<N("in.json")>>), Symlink(<<N(".."), N("in.json")>>)),
                      Join(at, <<N("conf.lmp")>>), Symlink(<<N(".."), N("conf.lmp")>>)),
                      Join(at, <<N("graph.pb")>>), Symlink(<<N(".."), N("graph.pb")>>))
                /\ cwd' = RestoreCwd(cwd, at)
                /\ idx' = 0
                /\ pc' = "task"
                /\ err' = err
    /\ UNCHANGED <<jdata, k, all_tasks, acc, res, ret, out, args>>

\* one iteration of the task loop of _make_tasks; after the last one the call
\* returns and make_tasks goes on to its next call
MakeTask ==
    /\ pc = "task"
    /\ LET call == MakeTasksCalls[k]
           stage == Join(iter_name, <<call.dir>>)
           lam == AllLambda(jdata, call.step).val
           ii == lam[idx + 1]
           work_path == Join(stage, <<TaskName(idx)>>)
           at == Resolve(cwd, work_path)
           lmp == GenLammpsInputIdeal(call.step, ii, jdata.soft_param)
           linked == Write(Write(files,
                       Join(at, <<N("conf.lmp")>>), Symlink(<<N(".."), N("conf.lmp")>>)),
                       Join(at, <<N("graph.pb")>>), Symlink(<<N(".."), N("graph.pb")>>))
       IN  /\ dirs' = create_path(dirs, cwd, work_path)
           /\ IF ~lmp.ok
              THEN /\ files' = linked
                   /\ cwd' = at
                   /\ err' = lmp.err
                   /\ pc' = "gen_failed"
                   /\ UNCHANGED <<idx, k>>
              ELSE /\ files' = Write(Write(linked,
                                  Join(at, <<N("in.lammps")>>), lmp.text),
                                  Join(at, <<N("lambda.out")>>), LambdaStr(ii))
                   /\ cwd' = RestoreCwd(cwd, at)
                   /\ err' = err
                   /\ IF idx + 1 < Len(lam)
                      THEN /\ idx' = idx + 1
                           /\ pc' = "task"
                           /\ k' = k
                      ELSE /\ idx' = 0
                           /\ k' = IF k < Len(MakeTasksCalls) THEN k + 1 ELSE 0
                           /\ pc' = IF k < Len(MakeTasksCalls) THEN "make_tasks" ELSE "gen_done"
    /\ UNCHANGED <<jdata, all_tasks, acc, res, ret, out, args>>

(***************************************************************************)
(* The external simulator: it runs every generated task and leaves a       *)
(* log.lammps in the task directory.  What a log holds is a function of    *)
(* the script that was run.                                                *)
(***************************************************************************)
\* block average and standard error of the dU/dlambda column of a run
ObservedDU(ff, lam) ==
    CASE ff = "soft_on" -> [avg |-> 10 + lam, err |-> 1]
      [] ff = "deep_on" -> [avg |-> 20 + (lam * lam) \div 4, err |-> 2]
      [] OTHER -> [avg |-> (lam * lam) \div 8 - 5, err |-> lam \div 4]

\* block average and standard error of P*V of a run
ObservedPV(ff, lam) ==
    CASE ff = "soft_on" -> [avg |-> 1, err |-> 1]
      [] ff = "deep_on" -> [avg |-> 2, err |-> 1]
      [] OTHER -> [avg |-> 3 + lam, err |-> 1 + lam \div 4]

SimulatorLog(script) ==
    [kind |-> "log", dU |-> ObservedDU(script.ff, script.lambda),
     pv |-> ObservedPV(script.ff, script.lambda)]

\* the task directories that exist
TaskDirs == {p \in dirs : Len(p) = 3 /\ p[3].base = "task."}

Under(p, d) == Len(p) >= Len(d) /\ SubSeq(p, 1, Len(d)) = d

\* The simulator has run.  At most one task is left without its output: its
\* log is missing, or its whole directory is.
RunSimulator ==
    /\ pc = "gen_done"
    /\ \E lost \in {{}} \cup {{t} : t \in TaskDirs}, whole \in BOOLEAN :
         LET logs == [t \in {Join(d, <<N("log.lammps")>>) : d \in TaskDirs \ lost}
                         |-> SimulatorLog(files[Join(Parent(t), <<N("in.lammps")>>)])]
             gone == IF whole THEN lost ELSE {}
             kept == {p \in DOMAIN files : \A d \in gone : ~Under(p, d)}
         IN  /\ (lost = {} => ~whole)
             /\ dirs' = dirs \ gone
             /\ files' = logs @@ [p \in kept |-> files[p]]
    /\ pc' = "compute"
    /\ UNCHANGED <<jdata, cwd, k, idx, err, all_tasks, acc, res, ret, out, args>>

(***************************************************************************)
(* compute: _main, post_tasks and _post_tasks.                             *)
(***************************************************************************)
\* the reference free energy einstein.ideal_gas_fe returns for the job
ideal_gas_fe == 100

Last(s) == s[Len(s)]

\* string order of two digit strings
RECURSIVE LexLess(_, _)
LexLess(a, b) ==
    IF a = <<>> THEN b # <<>>
    ELSE IF b = <<>> THEN FALSE
    ELSE IF a[1] # b[1] THEN a[1] < b[1]
    ELSE LexLess(Tail(a), Tail(b))

\* a sort of the task paths from the highest name to the lowest
RECURSIVE SortPathsDescending(_)
SortPathsDescending(S) ==
    IF S = {} THEN <<>>
    ELSE LET m == CHOOSE x \in S : \A y \in S \ {x} : LexLess(Last(y).digits, Last(x).digits)
         IN  <<m>> \o SortPathsDescending(S \ {m})

\* list.sort() of paths that differ in the digits of their last component
RECURSIVE SortPaths(_)
SortPaths(S) ==
    IF S = {} THEN <<>>
    ELSE LET m == CHOOSE x \in S : \A y \in S \ {x} : LexLess(Last(x).digits, Last(y).digits)
         IN  <<m>> \o SortPaths(S \ {m})

\* glob.glob(os.path.join(iter_name, 'task.[0-9]*'))
GlobTasks(at) ==
    {p \in dirs \cup DOMAIN files :
        /\ Len(p) = Len(at) + 1
        /\ Parent(p) = at
        /\ Last(p).base = "task."
        /\ Len(Last(p).digits) >= 1}

\* the file a path names, following one symlink to ../<name>
Follow(fs, p) ==
    IF Exists(fs, p) /\ fs[p].kind = "symlink"
    THEN Parent(Parent(p)) \o Tail(fs[p].target)
    ELSE p

Abs(x) == IF x < 0 THEN -x ELSE x

RECURSIVE SumTo(_, _)
SumTo(f, n) == IF n = 0 THEN 0 ELSE f[n] + SumTo(f, n - 1)

\* integrate (lib.utils): trapezoidal value, and the squared statistical error
\* with per-point weights w[i] = half the sum of the gaps next to point i
Integrate(lam, de, all_err) ==
    LET n == Len(lam)
        panel == [i \in 1..(n - 1) |-> ((de[i] + de[i + 1]) * (lam[i + 1] - lam[i])) \div 2]
        gap(i) == IF i < 1 \/ i >= n THEN 0 ELSE lam[i + 1] - lam[i]
        w == [i \in 1..n |-> (gap(i - 1) + gap(i)) \div 2]
        term == [i \in 1..n |-> (w[i] * all_err[i]) * (w[i] * all_err[i])]
    IN  [ok |-> n >= 2, diff_e |-> SumTo(panel, n - 1), err_sq |-> SumTo(term, n)]

\* integrate_sys_err (lib.utils): the summed absolute second differences of the
\* means, the curvature proxy of the trapezoidal rule
IntegrateSysErr(lam, de) ==
    LET n == Len(lam)
        curv == [i \in 1..(n - 2) |-> Abs(de[i] - 2 * de[i + 1] + de[i + 2])]
    IN  IF n < 3 THEN 0 ELSE SumTo(curv, n - 2)

\* _compute_thermo(fname, ...): the thermodynamic summary of one log; fname is
\* kept beside it to tell which log it was computed from
ComputeThermo(fs, fname) ==
    [pv |-> fs[fname].pv.avg, pv_err |-> fs[fname].pv.err, fname |-> fname]

EmptyAcc == [all_lambda |-> <<>>, all_dp_a |-> <<>>, all_dp_e |-> <<>>]

\* largest integer whose square is at most n
ISqrt(n) == CHOOSE x \in 0..n : x * x <= n /\ (x + 1) * (x + 1) > n

\* post_tasks subtracting the soft_off contribution
PostTasksCombineSubtract(fe, r) ==
    [fe |-> fe + r[1].diff_e + r[2].diff_e - r[3].diff_e,
     err_sq |-> r[1].err_sq + r[2].err_sq + r[3].err_sq,
     sys_err |-> r[1].sys_err + r[2].sys_err + r[3].sys_err,
     tinfo |-> <<r[3].tinfo>>]

\* post_tasks combining the systematic errors like the statistical ones
PostTasksCombineRss(fe, r) ==
    [fe |-> fe + r[1].diff_e + r[2].diff_e + r[3].diff_e,
     err_sq |-> r[1].err_sq + r[2].err_sq + r[3].err_sq,
     sys_err |-> ISqrt(r[1].sys_err * r[1].sys_err + r[2].sys_err * r[2].sys_err
                       + r[3].sys_err * r[3].sys_err),
     tinfo |-> <<r[3].tinfo>>]

\* post_tasks, the last three statements: the free energy and its two errors
PostTasksCombine(fe, r) ==
    [fe |-> fe + r[1].diff_e + r[2].diff_e + r[3].diff_e,
     err_sq |-> r[1].err_sq + r[2].err_sq + r[3].err_sq,
     sys_err |-> r[1].sys_err + r[2].sys_err + r[3].sys_err,
     tinfo |-> <<r[3].tinfo>>]

\* _main adding the P*V error to the systematic error as well
PrintedSysWithPV(type, r) ==
    IF type = "gibbs"
    THEN [type |-> type, thermo |-> r.tinfo[1],
          value |-> r.fe + r.tinfo[1].pv,
          err_sq |-> r.err_sq + r.tinfo[1].pv_err * r.tinfo[1].pv_err,
          sys_err |-> r.sys_err + r.tinfo[1].pv_err]
    ELSE [type |-> type, thermo |-> r.tinfo[1],
          value |-> r.fe, err_sq |-> r.err_sq, sys_err |-> r.sys_err]

\* _main, compute: what is printed for a free-energy type
Printed(type, r) ==
    IF type = "gibbs"
    THEN [type |-> type, thermo |-> r.tinfo[1],
          value |-> r.fe + r.tinfo[1].pv,
          err_sq |-> r.err_sq + r.tinfo[1].pv_err * r.tinfo[1].pv_err,
          sys_err |-> r.sys_err]
    ELSE [type |-> type, thermo |-> r.tinfo[1],
          value |-> r.fe, err_sq |-> r.err_sq, sys_err |-> r.sys_err]

\* _main up to the first _post_tasks call: conf.lmp and in.json of the job are
\* read, then post_tasks takes the reference free energy
ComputeHead ==
    /\ pc = "compute"
    /\ IF Exists(files, Join(iter_name, <<N("conf.lmp")>>))
          /\ Exists(files, Join(iter_name, <<N("in.json")>>))
       THEN /\ ret' = [NoRet EXCEPT !.fe = ideal_gas_fe]
            /\ k' = 1
            /\ pc' = "post_tasks"
            /\ err' = err
       ELSE /\ err' = Error("FileNotFoundError", Key("conf.lmp", 0, 0))
            /\ pc' = "compute_failed"
            /\ UNCHANGED <<ret, k>>
    /\ UNCHANGED <<jdata, cwd, dirs, files, idx, all_tasks, acc, res, out, args>>

\* _post_tasks from its entry to the start of the task loop
PostTasksEnter ==
    /\ pc = "post_tasks"
    /\ LET call == PostTasksCalls[k]
           stage == Resolve(cwd, Join(iter_name, <<call.dir>>))
           json == Follow(files, Join(stage, <<N("in.json")>>))
       IN  IF ~Exists(files, json)
           THEN /\ err' = Error("FileNotFoundError", Key("in.json", 0, 0))
                /\ pc' = "compute_failed"
                /\ UNCHANGED <<all_tasks, acc, idx>>
           ELSE /\ all_tasks' = SortPaths(GlobTasks(stage))
                /\ acc' = EmptyAcc
                /\ idx' = 0
                /\ pc' = "post_task"
                /\ err' = err
    /\ UNCHANGED <<jdata, cwd, dirs, files, k, res, ret, out, args>>

\* one iteration of the task loop of _post_tasks
PostTask ==
    /\ pc = "post_task"
    /\ idx < Len(all_tasks)
    /\ LET ii == all_tasks[idx + 1]
           log_name == Join(ii, <<N("log.lammps")>>)
           lmda_name == Join(ii, <<N("lambda.out")>>)
       IN  IF ~Exists(files, log_name)
           THEN /\ err' = Error("DataUnavailableError", Key("log.lammps", 0, idx))
                /\ pc' = "compute_failed"
                /\ UNCHANGED <<files, acc, idx>>
           ELSE IF ~Exists(files, lmda_name)
           THEN /\ files' = Write(files, Join(ii, <<N("data")>>),
                                  [kind |-> "data", of |-> log_name])
                /\ err' = Error("FileNotFoundError", Key("lambda.out", 0, idx))
                /\ pc' = "compute_failed"
                /\ UNCHANGED <<acc, idx>>
           ELSE /\ files' = Write(files, Join(ii, <<N("data")>>),
                                  [kind |-> "data", of |-> log_name])
                /\ acc' = [all_lambda |-> Append(acc.all_lambda, ParseFloat(files[lmda_name])),
                           all_dp_a |-> Append(acc.all_dp_a, files[log_name].dU.avg),
                           all_dp_e |-> Append(acc.all_dp_e, files[log_name].dU.err)]
                /\ idx' = idx + 1
                /\ UNCHANGED <<pc, err>>
    /\ UNCHANGED <<jdata, cwd, dirs, k, all_tasks, res, ret, out, args>>

\* _post_tasks after the loop: hti.out, the integration, the thermodynamic
\* summary of the last task; then post_tasks goes on to its next call or combines
PostTasksFinish ==
    /\ pc = "post_task"
    /\ idx = Len(all_tasks)
    /\ LET call == PostTasksCalls[k]
           stage == Resolve(cwd, Join(iter_name, <<call.dir>>))
           int == Integrate(acc.all_lambda, acc.all_dp_a, acc.all_dp_e)
           sys_err == IntegrateSysErr(acc.all_lambda, acc.all_dp_a)
           r == [diff_e |-> int.diff_e, err_sq |-> int.err_sq, sys_err |-> sys_err,
                 tinfo |-> ComputeThermo(files, Join(Last(all_tasks), <<N("log.lammps")>>))]
       IN  /\ files' = Write(files, Join(stage, <<N("hti.out")>>),
                             [kind |-> "hti.out", lmbda |-> acc.all_lambda,
                              dU |-> acc.all_dp_a, dU_err |-> acc.all_dp_e])
           /\ IF ~int.ok
              THEN /\ err' = Error("InsufficientDataError", Key(call.step, 0, 0))
                   /\ pc' = "compute_failed"
                   /\ UNCHANGED <<res, ret, k>>
              ELSE /\ res' = Append(res, r)
                   /\ err' = err
                   /\ IF k < Len(PostTasksCalls)
                      THEN /\ k' = k + 1
                           /\ pc' = "post_tasks"
                           /\ ret' = ret
                      ELSE /\ k' = 0
                           /\ pc' = "print"
                           /\ ret' = PostTasksCombine(ret.fe, res')
    /\ idx' = 0
    /\ UNCHANGED <<jdata, cwd, dirs, all_tasks, acc, out, args>>

\* _main after post_tasks: the thermodynamic summary and the free energy of the
\* type asked for on the command line
Report ==
    /\ pc = "print"
    /\ \E type \in {"helmholtz", "gibbs"} : out' = <<Printed(type, ret)>>
    /\ pc' = "done"
    /\ UNCHANGED <<jdata, cwd, dirs, files, k, idx, err, all_tasks, acc, res, ret, args>>

Next ==
    \/ MakeTasksHead
    \/ MakeTasksEnter
    \/ MakeTask
    \/ RunSimulator
    \/ ComputeHead
    \/ PostTasksEnter
    \/ PostTask
    \/ PostTasksFinish
    \/ Report

Spec == Init /\ [][Next]_vars

(***************************************************************************)
(* The equilibration driver (src/equi.py): the "gen" command, make_task    *)
(* and _gen_lammps_input.                                                  *)
(***************************************************************************)
\* an option given on the command line, or a key present in the configuration
Some(v) == [given |-> TRUE, val |-> v]

\* a key that the configuration does not have
Missing == [given |-> FALSE, val |-> 0]

\* ensemble names, held as their characters
NVT == <<"n", "v", "t">>
NPT == <<"n", "p", "t">>
NPT_ISO == NPT \o <<"-", "i", "s", "o">>
NPT_ANISO == NPT \o <<"-", "a", "n", "i", "s", "o">>
NPT_TRI == NPT \o <<"-", "t", "r", "i">>
NVE == <<"n", "v", "e">>
NPH == <<"n", "p", "h">>
NPT_XYZ == NPT \o <<"-", "x", "y", "z">>

\* the names that have an integrator branch in _gen_lammps_input
BranchEnsembles == {NVT, NPT, NPT_ISO, NPT_ANISO, NPT_TRI, NVE}

EnsNames == BranchEnsembles \cup {NPH, NPT_XYZ}

\* sub in s, of Python strings
Contains(s, sub) ==
    \E i \in 1..(Len(s) - Len(sub) + 1) : SubSeq(s, i, i + Len(sub) - 1) = sub

\* os.path.relpath(p, start) of two absolute paths
RECURSIVE relpath(_, _)
relpath(p, start) ==
    IF start # <<>> /\ p # <<>> /\ Head(p) = Head(start)
    THEN relpath(Tail(p), Tail(start))
    ELSE [n \in 1..Len(start) |-> N("..")] \o p

\* _gen_lammps_input: the script, or the exception it raises.  Of the script
\* the model keeps the values of TEMP and PRES, the thermo_style line and the
\* "fix 1" lines.
GenLammpsInput(ens, temp, pres) ==
    LET fail(e) == [ok |-> FALSE, err |-> e, text |-> <<>>]
        done(fix) == [ok |-> TRUE, err |-> NoErr,
                      text |-> [kind |-> "in.lammps", TEMP |-> temp.val,
                                PRES |-> pres.val, fix |-> <<fix>>]]
        iso(couple) == [style |-> "npt", couple |-> couple]
    IN  IF ~pres.given
        THEN fail(Error("TypeError", Key("pres", 0, 0)))
        ELSE IF ens # NVT /\ ~Contains(ens, NPT)
        THEN fail(Error("RuntimeError", Key("unknow ensemble %s", 0, 0)))
        ELSE IF ens = NVT THEN done([style |-> "nvt", couple |-> ""])
        ELSE IF ens = NPT_ISO \/ ens = NPT THEN done(iso("iso"))
        ELSE IF ens = NPT_ANISO THEN done(iso("aniso"))
        ELSE IF ens = NPT_TRI THEN done(iso("tri"))
        ELSE IF ens = NVE THEN done([style |-> "nve", couple |-> ""])
        ELSE fail(Error("RuntimeError", Key("unknow ensemble %s", 0, 0)))

EquiConfigurations ==
    [equi_conf : {<<N("conf.lmp")>>}, model : {<<N("graph.pb")>>},
     ens : EnsNames, temp : {Missing, Some(300)}, pres : {Missing, Some(1)}]

EquiArgs == [temperature : {None, Some(250)}, pressure : {None, Some(2)}]

InitEqui ==
    /\ jdata \in EquiConfigurations
    /\ args \in EquiArgs
    /\ cwd = Root
    /\ dirs = {}
    /\ files = (<<N("conf.lmp")>> :> [kind |-> "conf"])
               @@ (<<N("graph.pb")>> :> [kind |-> "model"])
    /\ pc = "equi_gen"
    /\ k = 0
    /\ idx = 0
    /\ err = NoErr
    /\ all_tasks = <<>>
    /\ acc = <<>>
    /\ res = <<>>
    /\ ret = NoRet
    /\ out = <<>>

\* make_task(args.output, jdata, args.temperature, args.pressure)
EquiMakeTask ==
    /\ pc = "equi_gen"
    /\ LET equi_conf == Resolve(cwd, jdata.equi_conf)
           model == Resolve(cwd, jdata.model)
           temp == IF args.temperature = None THEN jdata.temp ELSE args.temperature
           with_temp == [jdata EXCEPT !.temp = temp]
           npt == Contains(jdata.ens, NPT)
           pres == IF npt /\ args.pressure = None THEN jdata.pres ELSE args.pressure
           jd == IF npt THEN [with_temp EXCEPT !.pres = pres] ELSE with_temp
           job == Resolve(cwd, iter_name)
           lmp == GenLammpsInput(jdata.ens, temp, pres)
           linked == Write(Write(Write(files,
                       Join(job, <<N("in.json")>>), [kind |-> "json", jdata |-> jd]),
                       Join(job, <<N("conf.lmp")>>), Symlink(relpath(equi_conf, job))),
                       Join(job, <<N("graph.pb")>>), Symlink(relpath(model, job)))
       IN  IF ~temp.given
           THEN /\ err' = Error("KeyError", Key("temp", 0, 0))
                /\ pc' = "equi_failed"
                /\ UNCHANGED <<jdata, dirs, files, cwd>>
           ELSE IF npt /\ ~pres.given
           THEN /\ err' = Error("KeyError", Key("pres", 0, 0))
                /\ pc' = "equi_failed"
                /\ jdata' = with_temp
                /\ UNCHANGED <<dirs, files, cwd>>
           ELSE /\ jdata' = jd
                /\ dirs' = create_path(dirs, cwd, iter_name)
                /\ IF ~lmp.ok
                   THEN /\ files' = linked
                        /\ cwd' = job
                        /\ err' = lmp.err
                        /\ pc' = "equi_failed"
                   ELSE /\ files' = Write(linked, Join(job, <<N("in.lammps")>>), lmp.text)
                        /\ cwd' = RestoreCwd(cwd, job)
                        /\ err' = err
                        /\ pc' = "equi_done"
    /\ UNCHANGED <<k, idx, all_tasks, acc, res, ret, out, args>>

\* the generate commands of the two drivers
InitGen == Init \/ InitEqui

NextGen == Next \/ EquiMakeTask

SpecGen == InitGen /\ [][NextGen]_vars

(***************************************************************************)
(* The claims.                                                             *)
(***************************************************************************)
\* the stage order and the directory of each stage, as the specification names them
StageOrder == <<"soft_on", "deep_on", "soft_off">>

StageDirOf(step) ==
    CASE step = "soft_on" -> N("00.soft_on")
      [] step = "deep_on" -> N("01.deep_on")
      [] OTHER -> N("02.soft_off")

StagePath(step) == Join(iter_name, <<StageDirOf(step)>>)

\* the lambda path generation was given for a step (empty if it does not parse)
Generated(step) == AllLambda(jdata, step).val

\* the task directories generation makes for a step
GeneratedTasks(step) ==
    {Join(StagePath(step), <<TaskName(i - 1)>>) : i \in 1..Len(Generated(step))}

HtiOut(step) == Join(StagePath(step), <<N("hti.out")>>)

GenPcs == {"gen", "make_tasks", "task", "gen_failed", "gen_done"}

LambdasParse == \A n \in 1..3 : AllLambda(jdata, StageOrder[n]).ok

RECURSIVE MaxOf(_)
MaxOf(s) == IF Len(s) = 1 THEN s[1]
            ELSE LET m == MaxOf(Tail(s)) IN IF s[1] > m THEN s[1] ELSE m

StrictlyAscending(s) == \A i \in 1..(Len(s) - 1) : s[i] < s[i + 1]

\* C1: when the lambda specifications parse and a pair key that the potential
\* assembly of some stage reads is absent from soft_param, generation fails with
\* an error naming an absent pair key and no stage or task directory is ever made.
C1_MissingPairKeyFailsFast ==
    LET sp == jdata.soft_param
        needed == {FFKey(StageOrder[n], p[1], p[2]) :
                      n \in 1..3, p \in Pairs(ElementNum(sp))}
        missing == needed \ sp.keys
    IN  (LambdasParse /\ missing # {}) =>
            /\ pc \in GenPcs \ {"gen_done"}
            /\ \A d \in dirs : Len(d) < 2
            /\ (pc = "gen_failed" => err.key \in missing)

\* C2: when make_tasks ends with a lambda-configuration error (a missing or
\* unparsable lambda specification, an unknown stage name), no task directory
\* exists under any stage.
C2_ConfigErrorBeforeAnyTask ==
    (pc = "gen_failed"
       /\ err.key.name \in {"lambda_soft_on", "lambda_deep_on", "lambda_soft_off",
                            "unknow step"})
    => TaskDirs = {}

\* C3: _post_tasks returns a result for a stage, and post_tasks a free energy,
\* only if every task generated for the stage has its directory and a readable
\* log at compute time.
C3_NoSilentSkip ==
    \A n \in 1..Len(res) :
        \A t \in GeneratedTasks(PostTasksCalls[n].step) :
            t \in dirs /\ Exists(files, Join(t, <<N("log.lammps")>>))

\* C4: the lambda column written to hti.out, which is the array handed to
\* integrate, is strictly ascending for every stage.
C4_LambdasStrictlyAscending ==
    \A n \in 1..3 :
        Exists(files, HtiOut(StageOrder[n]))
            => StrictlyAscending(files[HtiOut(StageOrder[n])].lmbda)

\* the integration value of the rows of a stage's hti.out
HtiValue(step) ==
    Integrate(files[HtiOut(step)].lmbda, files[HtiOut(step)].dU,
              files[HtiOut(step)].dU_err).diff_e

\* C5: the free energy post_tasks returns is the reference plus the integration
\* values of soft_on, deep_on and soft_off, each added once.
C5_FreeEnergyIsSum ==
    pc \in {"print", "done"} =>
        /\ Len(res) = 3
        /\ \A n \in 1..3 : res[n].diff_e = HtiValue(StageOrder[n])
        /\ ret.fe = ideal_gas_fe + HtiValue("soft_on") + HtiValue("deep_on")
                        + HtiValue("soft_off")

C5_Witness ==
    /\ pc = "done"
    /\ res[1].diff_e > 0 /\ res[2].diff_e > res[1].diff_e /\ res[3].diff_e < 0
    /\ err = NoErr

\* C6: the square of the combined statistical error is the sum of the squares
\* of the three stage errors, and the combined systematic error is the plain
\* sum of the three stage systematic errors.
C6_ErrorCombination ==
    pc \in {"print", "done"} =>
        /\ ret.err_sq = res[1].err_sq + res[2].err_sq + res[3].err_sq
        /\ ret.sys_err = res[1].sys_err + res[2].sys_err + res[3].sys_err

C6_Witness ==
    /\ pc = "done"
    /\ res[1].sys_err > 0 /\ res[3].sys_err > 0
    /\ res[1].err_sq > 0 /\ res[2].err_sq > 0 /\ res[3].err_sq > 0

\* C7: with type gibbs the printed value is the Helmholtz free energy plus P*V,
\* the printed squared statistical error adds the squared P*V error, and the
\* systematic error is printed unchanged; with type helmholtz all three are
\* printed as post_tasks returned them.
C7_GibbsAndHelmholtz ==
    out # <<>> =>
        LET o == out[1]
            pv == ret.tinfo[1].pv
            pv_err == ret.tinfo[1].pv_err
        IN  /\ o.type = "gibbs" =>
                  /\ o.value = ret.fe + pv
                  /\ o.err_sq = ret.err_sq + pv_err * pv_err
                  /\ o.sys_err = ret.sys_err
            /\ o.type = "helmholtz" =>
                  /\ o.value = ret.fe
                  /\ o.err_sq = ret.err_sq
                  /\ o.sys_err = ret.sys_err

C7_Witness ==
    /\ pc = "done"
    /\ out[1].type = "gibbs"
    /\ ret.tinfo[1].pv > 0 /\ ret.tinfo[1].pv_err > 0
    /\ ret.sys_err > 0

\* C8: the stages are handled in the order soft_on, deep_on, soft_off by
\* make_tasks and by post_tasks, and every stage directory holds the potential
\* form and the lambda path of its own stage.
C8_FixedStageOrder ==
    \A gen \in {[n \in 1..3 |-> AllLambda(jdata, StageOrder[n])]} :
    \A have \in {DOMAIN files} :
    \A stage \in {[n \in 1..3 |-> StagePath(StageOrder[n])]} :
    \A task \in {[n \in 1..3 |-> [i \in 1..Len(gen[n].val) |->
                                     Join(stage[n], <<TaskName(i - 1)>>)]]} :
        LET \* the stage as generation leaves it: every task of its path, with lambda.out
            generated(n) ==
                /\ gen[n].ok
                /\ \A i \in 1..Len(gen[n].val) :
                       Join(task[n][i], <<N("lambda.out")>>) \in have
            hti(n) == Join(stage[n], <<N("hti.out")>>) \in have
        IN  /\ pc \in GenPcs =>
                  /\ stage[2] \in dirs => generated(1)
                  /\ stage[3] \in dirs => generated(1) /\ generated(2)
            /\ hti(2) => hti(1)
            /\ hti(3) => hti(1) /\ hti(2)
            /\ \A n \in 1..3 : \A i \in 1..Len(gen[n].val) :
                  \A script \in {Join(task[n][i], <<N("in.lammps")>>)} :
                  \A lmda \in {Join(task[n][i], <<N("lambda.out")>>)} :
                      /\ script \in have
                            => /\ files[script].ff = StageOrder[n]
                               /\ files[script].lambda = gen[n].val[i]
                      /\ lmda \in have => ParseFloat(files[lmda]) = gen[n].val[i]
            /\ \A t \in dirs :
                  (Len(t) = 3 /\ t[3].base = "task.")
                      => \E n \in 1..3 : \E i \in 1..Len(gen[n].val) : t = task[n][i]

C8_Witness ==
    /\ pc = "done"
    /\ Generated("soft_on") # Generated("deep_on")
    /\ Generated("deep_on") # Generated("soft_off")
    /\ Generated("soft_on") # Generated("soft_off")

\* C9: the thermodynamic summary post_tasks returns comes from the soft_off
\* task whose lambda is the highest of the soft_off path.
C9_ThermoFromHighestLambda ==
    pc \in {"print", "done"} =>
        LET task == Parent(ret.tinfo[1].fname)
        IN  /\ Parent(task) = StagePath("soft_off")
            /\ ParseFloat(files[Join(task, <<N("lambda.out")>>)])
                   = MaxOf(Generated("soft_off"))

\* C10: a stage's hti.out and its integration result exist only once every task
\* of the stage has been read and block-averaged, and the free energy is
\* printed only once all three stages have a result.
C10_NoPartialResultVisible ==
    /\ \A n \in 1..3 :
          (Exists(files, HtiOut(StageOrder[n])) \/ Len(res) >= n)
              => \A t \in GeneratedTasks(StageOrder[n]) :
                     Exists(files, Join(t, <<N("data")>>))
    /\ out # <<>> => Len(res) = 3

\* the number of tasks of stage n that generation has finished
DoneTasks(n) ==
    IF pc = "gen_done" \/ (pc \in {"make_tasks", "task"} /\ k > n)
    THEN Len(Generated(StageOrder[n]))
    ELSE IF pc = "task" /\ k = n THEN idx ELSE 0

EquiJob == Join(Root, iter_name)

EquiMaterialized ==
    \/ EquiJob \in dirs
    \/ \E f \in {"in.json", "conf.lmp", "graph.pb", "in.lammps"} :
          Exists(files, Join(EquiJob, <<N(f)>>))

UnknownEnsemble == Error("RuntimeError", Key("unknow ensemble %s", 0, 0))

\* C11: when make_task of the equilibration driver raises for an ensemble
\* name it does not recognize, nothing has been materialized: the job
\* directory, in.json and the conf.lmp / graph.pb symlinks do not exist.
C11_UnknownEnsembleBeforeMaterialization ==
    (pc = "equi_failed" /\ err = UnknownEnsemble) => ~EquiMaterialized

\* the directories a generate operation is meant to make: the job directory,
\* the three stage directories in it and task directories in those
Intended(t) ==
    /\ Len(t) \in 1..3
    /\ SubSeq(t, 1, 1) = iter_name
    /\ Len(t) >= 2 => \E n \in 1..3 : t[2] = StageDirOf(StageOrder[n])
    /\ Len(t) = 3 => t[3].base = "task." /\ Len(t[3].digits) = PadWidth

\* C13: the generate operations leave the working directory as it was at
\* entry (the root, in every run of the model).  It has that value when
\* make_tasks has written in.json, when each _make_tasks call has made its
\* stage directory, after each task iteration, when make_tasks has returned
\* and when make_task of the equilibration driver has returned; and every
\* directory that exists is the job directory, a stage directory in it or a
\* task directory in a stage directory.
C13_WorkingDirectoryUnchanged ==
    /\ pc \in {"make_tasks", "task", "gen_done", "equi_done"} => cwd = Root
    /\ \A t \in dirs : Intended(t)

\* make_tasks has returned after twelve task iterations
C13_Witness ==
    /\ pc = "gen_done"
    /\ Cardinality(TaskDirs) = 12
    /\ cwd = Root

\* the "fix 1" line _gen_lammps_input has for an ensemble name
FixLine(ens) ==
    CASE ens = NVT -> [style |-> "nvt", couple |-> ""]
      [] ens = NVE -> [style |-> "nve", couple |-> ""]
      [] ens = NPT_ANISO -> [style |-> "npt", couple |-> "aniso"]
      [] ens = NPT_TRI -> [style |-> "npt", couple |-> "tri"]
      [] OTHER -> [style |-> "npt", couple |-> "iso"]

\* the configuration and the options hold every value make_task needs: a
\* temperature, and a pressure if the ensemble is of the npt type
EquiComplete ==
    /\ args.temperature.given \/ jdata.temp.given
    /\ jdata.ens \in {NPT, NPT_ISO, NPT_ANISO, NPT_TRI}
          => args.pressure.given \/ jdata.pres.given

\* C14: for every ensemble name with an integrator branch (nvt, npt, npt-iso,
\* npt-aniso, npt-tri, nve) and a complete configuration, make_task completes
\* and writes an in.lammps with exactly one "fix 1" line, the one of that
\* ensemble; nvt and nve need no pressure.
C14_EveryBranchEnsembleCompletes ==
    (pc \in {"equi_done", "equi_failed"} /\ jdata.ens \in BranchEnsembles /\ EquiComplete)
        => /\ pc = "equi_done"
           /\ Exists(files, Join(EquiJob, <<N("in.lammps")>>))
           /\ files[Join(EquiJob, <<N("in.lammps")>>)].fix = <<FixLine(jdata.ens)>>
====
